---- MODULE Spec2Model ----
(***************************************************************************)
(* Booking / seat-reservation lifecycle of the carpooling server.          *)
(*                                                                         *)
(* State: the Ride, Booking and User collections of the store              *)
(* (server/db.ts), the id generators, the last HTTP response, the last     *)
(* array a listing returned, and the position and locals of every request  *)
(* handler in flight.                                                      *)
(*                                                                         *)
(* A handler is one action per store call it awaits: what it read in an    *)
(* earlier step is kept in its locals and may be stale when it writes.     *)
(* Each specification is a scenario: which handlers may be in flight       *)
(* together, with which inputs.  The bounds of a scenario are conjuncts    *)
(* of its next-state relation, never of an action.                         *)
(*                                                                         *)
(* Spec        : one handler at a time (rides, bookings, status, delete).  *)
(* SpecConc    : two POST /api/bookings handlers interleaved.              *)
(* SpecRace    : POST /api/bookings against a refunding PATCH.             *)
(* SpecStatus  : POST /api/bookings against PATCH with any status.         *)
(* SpecDel     : POST /api/bookings against DELETE /api/rides/:id.         *)
(* SpecFail    : one handler at a time, a store call may reject.           *)
(* SpecCascade : POST /api/bookings against a DELETE whose store calls     *)
(*               may reject.                                               *)
(* SpecRead    : one handler at a time, with the two listings.             *)
(* SpecReadRace: a listing interleaved with writes.                        *)
(* SpecRide    : one handler at a time, with PATCH /api/rides/:id/status.  *)
(* SpecPatch   : one handler at a time, PATCH /api/bookings/:id any body.  *)
(* SpecFrame   : two rides.                                                *)
(* SpecUser    : accounts: signup, profile update, account deletion.       *)
(* SpecMem     : the MemStorage variant, booking routes, one at a time.    *)
(* SpecMemRace : the variant, two PATCH /api/bookings/:id interleaved.     *)
(* SpecMemRides: the variant, ride routes.                                 *)
(* SpecMemUsers: the variant, account routes.                              *)
(***************************************************************************)
EXTENDS Integers, FiniteSets, Sequences, TLC

\* ---------------------------------------------------------------- bounds
MaxRides == 1
MaxBookings == 2
MaxSeats == 3
SeatCap == MaxSeats + 1

Users == {"u1", "u2"}
\* the order in which createUser's fresh ids are handed out
UserOrder == <<"u1", "u2">>
Emails == {"a@uni", "b@uni"}
\* the driver of the rides in the scenarios that are not about accounts
Drivers == {"u1"}
Procs == {"h1", "h2"}
\* the handler of the scenarios with one request in flight
Serial == {"h1"}
RideIds == 1..MaxRides
BookingIds == 1..MaxBookings

\* bookingSchema.status enum
BookingStatus == {"pending", "accepted", "rejected", "cancelled"}

VARIABLES rides, bookings, nextRideId, nextBookingId, resp, pc, local, listed, users

vars == <<rides, bookings, nextRideId, nextBookingId, resp, pc, local, listed, users>>
db == <<rides, bookings, nextRideId, nextBookingId>>

\* ---------------------------------------------------------------- helpers
\* findByIdAndUpdate(id, data): fields of data overwrite those of the document
Merge(doc, data) ==
  [f \in DOMAIN doc |-> IF f \in DOMAIN data THEN data[f] ELSE doc[f]]

Reply(op, code, msg) == [op |-> op, code |-> code, msg |-> msg]

NoReply == Reply("none", 0, "")

\* locals of a handler that is not running
NoLocal == [rideId |-> 0]

\* the array a listing returned: which method, its key, the rows
Listing(by, rideId, passengerId, items) ==
  [by |-> by, rideId |-> rideId, passengerId |-> passengerId, items |-> items]

NoList == Listing("none", 0, "", <<>>)

RECURSIVE SumSeats(_, _)
SumSeats(bks, S) ==
  IF S = {} THEN 0
  ELSE LET b == CHOOSE x \in S : TRUE IN bks[b].seatsBooked + SumSeats(bks, S \ {b})

\* bookings of a ride that hold seats
ActiveOn(bks, r) ==
  {b \in DOMAIN bks : bks[b].rideId = r /\ bks[b].status \in {"pending", "accepted"}}

BookingsOn(bks, r) == {b \in DOMAIN bks : bks[b].rideId = r}

\* the first booking, in store order, of a non-empty set of booking ids
FirstOf(S) == CHOOSE b \in S : \A c \in S : b <= c

\* a set of booking ids as the array a find() returns, in store order
RECURSIVE InOrder(_)
InOrder(S) == IF S = {} THEN <<>> ELSE <<FirstOf(S)>> \o InOrder(S \ {FirstOf(S)})

\* ---------------------------------------------------------------- storage
\* the defaults of rideSchema: isActive true, status scheduled
rideDefaults == [isActive |-> TRUE, status |-> "scheduled"]

\* MongoStorage.createRide: RideModel.create({ _id: id, ...insertRide }) stores
\* every field of the parsed body as given; a default of rideSchema fills a
\* field only when the body does not carry it
createRide(rs, id, insertRide) == rs @@ (id :> (insertRide @@ rideDefaults))

\* an updateRide whose write is not filtered by the ride id
updateRideAll(rs, id, data) ==
  IF id \in DOMAIN rs THEN [r \in DOMAIN rs |-> Merge(rs[r], data)] ELSE rs

\* MongoStorage.updateRide
updateRide(rs, id, data) ==
  IF id \in DOMAIN rs THEN [rs EXCEPT ![id] = Merge(@, data)] ELSE rs

\* RideModel.findByIdAndDelete(id)
removeRide(rs, id) == [r \in DOMAIN rs \ {id} |-> rs[r]]

\* MongoStorage.createBooking
createBooking(bks, id, insertBooking) ==
  bks @@ (id :> [rideId |-> insertBooking.rideId,
                 passengerId |-> insertBooking.passengerId,
                 status |-> insertBooking.status,
                 seatsBooked |-> insertBooking.seatsBooked])

\* BookingModel.findByIdAndUpdate(id, data)
writeBooking(bks, id, data) ==
  IF id \in DOMAIN bks THEN [bks EXCEPT ![id] = Merge(@, data)] ELSE bks

\* createBookingSchema of POST /api/bookings
createBookingSchema(body) == body.seatsBooked >= 1

\* the availability check of POST /api/bookings passes
HasCapacityNoCheck(seatsAvailable, seatsBooked) == TRUE

HasCapacityOffByOne(seatsAvailable, seatsBooked) == ~(seatsAvailable + 1 < seatsBooked)

HasCapacity(seatsAvailable, seatsBooked) == ~(seatsAvailable < seatsBooked)

\* "Reserve seats immediately" of POST /api/bookings: the counter written is
\* computed from the seat count the handler read before it created the booking
reserveSeats(rs, rideId, seatsAvailable, seatsBooked) ==
  updateRide(rs, rideId, [seatsAvailable |-> seatsAvailable - seatsBooked])

\* the two refund conditions of MongoStorage.updateBooking
RefundOnRejected(data, existing) ==
  /\ "status" \in DOMAIN data
  /\ data.status = "rejected"
  /\ existing.status = "pending"

RefundOnCancelled(data, existing) ==
  /\ "status" \in DOMAIN data
  /\ data.status = "cancelled"
  /\ existing.status \in {"accepted", "pending"}

\* MongoStorage.updateBooking writes the ride: one of its two conditions holds
refundDueOnAccept(data, existing) ==
  \/ RefundOnRejected(data, existing)
  \/ RefundOnCancelled(data, existing)
  \/ ("status" \in DOMAIN data /\ data.status = "accepted")

refundDue(data, existing) ==
  RefundOnRejected(data, existing) \/ RefundOnCancelled(data, existing)

\* the pending bookings of a ride, which MongoStorage.deleteRide scans
PendingOn(bks, id) ==
  {b \in DOMAIN bks : bks[b].rideId = id /\ bks[b].status = "pending"}

\* RideModel.find({ driverId: id })
driverRides(rs, id) == {r \in DOMAIN rs : rs[r].driverId = id}

\* BookingModel.deleteMany({ passengerId: id })
deleteBookingsOf(bks, id) ==
  [b \in {c \in DOMAIN bks : bks[c].passengerId # id} |-> bks[b]]

\* a user document; state tells an id never handed out from one whose
\* document was deleted (randomUUID does not hand an id out twice)
User(email, state) == [email |-> email, state |-> state]

\* UserModel.findOne({ email })
emailTaken(us, email) ==
  \E u \in DOMAIN us : us[u].state = "present" /\ us[u].email = email

\* the unique index on userSchema.email rejects a write of email to user id
duplicateKey(us, id, email) ==
  \E u \in DOMAIN us \ {id} : us[u].state = "present" /\ us[u].email = email

\* randomUUID(): the next id never handed out
freshUser(us, order) ==
  order[CHOOSE i \in DOMAIN order :
          /\ us[order[i]].state = "unused"
          /\ \A j \in DOMAIN order : us[order[j]].state = "unused" => i <= j]

\* ---------------------------------------------------------------- Init
Init ==
  /\ rides = <<>>
  /\ bookings = <<>>
  /\ nextRideId = 1
  /\ nextBookingId = 1
  /\ resp = NoReply
  /\ pc = [p \in Procs |-> "idle"]
  /\ local = [p \in Procs |-> NoLocal]
  /\ listed = NoList
  /\ users = [u \in Users |-> User("", "unused")]

Idle == \A p \in Procs : pc[p] = "idle"

\* the limits that keep a scenario finite: they say which requests a
\* scenario sends, a handler in flight always runs to its end
RidesBounded == nextRideId <= MaxRides

\* a request may start: the bookings stored and those about to be stored
\* stay within the bound
BookingsBounded ==
  nextBookingId + Cardinality({p \in Procs : pc[p] = "create"}) <= MaxBookings

\* a signup may start: an id is left for it and for those in flight
UsersBounded(order, label) ==
  Cardinality({i \in DOMAIN order : users[order[i]].state = "unused"})
    > Cardinality({p \in Procs : pc[p] = label})

SeatsBounded == \A r \in DOMAIN rides : rides[r].seatsAvailable <= SeatCap

\* a handler finishes: it answers and forgets its locals
Finish(p, reply) ==
  /\ resp' = reply
  /\ pc' = [pc EXCEPT ![p] = "idle"]
  /\ local' = [local EXCEPT ![p] = NoLocal]

\* a handler answers before its first store call
Refuse(reply) ==
  /\ resp' = reply
  /\ UNCHANGED <<pc, local>>

\* a handler goes on to its next store call
Goto(p, label, locals) ==
  /\ pc' = [pc EXCEPT ![p] = label]
  /\ local' = [local EXCEPT ![p] = locals]
  /\ UNCHANGED resp

\* ---------------------------------------------------------------- POST /api/rides
\* POST /api/rides: one store call, createRide. success is result.success of
\* insertRideSchema.safeParse(req.body); the schema is imported from
\* @shared/schema, so which bodies it accepts is an input of the handler. The
\* handler itself compares nothing: a parsed body is stored as it is.
CreateRide(driverId, seatsTotal, seatsAvailable, success) ==
  LET body == [driverId |-> driverId, seatsTotal |-> seatsTotal,
               seatsAvailable |-> seatsAvailable] IN
  /\ UNCHANGED <<bookings, nextBookingId, pc, local, listed, users>>
  /\ IF ~success
     THEN /\ resp' = Reply("createRide", 400, "ValidationError")
          /\ UNCHANGED <<rides, nextRideId>>
     ELSE /\ rides' = createRide(rides, nextRideId, body)
          /\ nextRideId' = nextRideId + 1
          /\ resp' = Reply("createRide", 200, "")

\* ---------------------------------------------------------------- POST /api/bookings, one step per await
\* locals of a POST /api/bookings handler: the parsed body, the seat count it
\* read, the id of the booking it stored (0 before createBooking returned)
ReqLocal(rideId, passengerId, seatsBooked, seatsAvailable) ==
  [rideId |-> rideId, passengerId |-> passengerId, seatsBooked |-> seatsBooked,
   seatsAvailable |-> seatsAvailable, bookingId |-> 0]

\* the first step without the "Ride not found" answer: the missing ride is
\* dereferenced and the handler's catch answers "Booking failed"
ReqGetRideNoLookup(p, rideId, passengerId, seatsBooked) ==
  LET body == [rideId |-> rideId, passengerId |-> passengerId,
               seatsBooked |-> seatsBooked] IN
  /\ pc[p] = "idle"
  /\ UNCHANGED <<db, listed, users>>
  /\ IF ~createBookingSchema(body)
     THEN Refuse(Reply("requestBooking", 400, "ValidationError"))
     ELSE IF rideId \notin DOMAIN rides
     THEN Refuse(Reply("requestBooking", 400, "BookingFailed"))
     ELSE IF ~HasCapacity(rides[rideId].seatsAvailable, seatsBooked)
     THEN Refuse(Reply("requestBooking", 400, "InsufficientSeats"))
     ELSE Goto(p, "create",
               ReqLocal(rideId, passengerId, seatsBooked, rides[rideId].seatsAvailable))

\* body validation, await storage.getRide(rideId), then the checks on the ride read
ReqGetRide(p, rideId, passengerId, seatsBooked) ==
  LET body == [rideId |-> rideId, passengerId |-> passengerId,
               seatsBooked |-> seatsBooked] IN
  /\ pc[p] = "idle"
  /\ UNCHANGED <<db, listed, users>>
  /\ IF ~createBookingSchema(body)
     THEN Refuse(Reply("requestBooking", 400, "ValidationError"))
     ELSE IF rideId \notin DOMAIN rides
     THEN Refuse(Reply("requestBooking", 404, "NotFound"))
     ELSE IF ~HasCapacity(rides[rideId].seatsAvailable, seatsBooked)
     THEN Refuse(Reply("requestBooking", 400, "InsufficientSeats"))
     ELSE Goto(p, "create",
               ReqLocal(rideId, passengerId, seatsBooked, rides[rideId].seatsAvailable))

\* await storage.createBooking({ rideId, passengerId, status: "pending", seatsBooked })
ReqCreateBooking(p) ==
  /\ pc[p] = "create"
  /\ bookings' = createBooking(bookings, nextBookingId,
                    [rideId |-> local[p].rideId, passengerId |-> local[p].passengerId,
                     status |-> "pending", seatsBooked |-> local[p].seatsBooked])
  /\ nextBookingId' = nextBookingId + 1
  /\ Goto(p, "reserve", [local[p] EXCEPT !.bookingId = nextBookingId])
  /\ UNCHANGED <<rides, nextRideId, listed, users>>

\* await storage.updateRide(rideId, { seatsAvailable: newSeatsAvailable }); res.json(booking)
ReqUpdateRide(p) ==
  /\ pc[p] = "reserve"
  /\ rides' = reserveSeats(rides, local[p].rideId, local[p].seatsAvailable,
                           local[p].seatsBooked)
  /\ Finish(p, Reply("requestBooking", 200, ""))
  /\ UNCHANGED <<bookings, nextRideId, nextBookingId, listed, users>>

\* storage.getRide rejects: the handler's catch answers "Booking failed"
ReqGetRideThrows(p, rideId, passengerId, seatsBooked) ==
  /\ pc[p] = "idle"
  /\ createBookingSchema([rideId |-> rideId, passengerId |-> passengerId,
                          seatsBooked |-> seatsBooked])
  /\ Refuse(Reply("requestBooking", 400, "BookingFailed"))
  /\ UNCHANGED <<db, listed, users>>

\* the store call the handler waits for (createBooking, or updateRide after
\* the booking was stored) rejects: the catch answers "Booking failed" and
\* what was written stays
ReqThrows(p) ==
  /\ pc[p] \in {"create", "reserve"}
  /\ Finish(p, Reply("requestBooking", 400, "BookingFailed"))
  /\ UNCHANGED <<db, listed, users>>

\* ---------------------------------------------------------------- PATCH /api/bookings/:id, one step per await
\* locals of a MongoStorage.updateBooking call: the id and body it was given,
\* the booking it read first, the updated booking, the seat count it read
UpdLocal(id, data, existing, booking, seatsAvailable) ==
  [id |-> id, data |-> data, existing |-> existing, booking |-> booking,
   seatsAvailable |-> seatsAvailable]

\* the first step without the "Booking not found" answer
UpdGetBookingNo404(p, id, data) ==
  /\ pc[p] = "idle"
  /\ UNCHANGED <<db, listed, users>>
  /\ IF id \notin DOMAIN bookings
     THEN Refuse(Reply("updateBooking", 200, ""))
     ELSE Goto(p, "write", UpdLocal(id, data, bookings[id], bookings[id], 0))

\* const existingBooking = await this.getBooking(id)
UpdGetBooking(p, id, data) ==
  /\ pc[p] = "idle"
  /\ UNCHANGED <<db, listed, users>>
  /\ IF id \notin DOMAIN bookings
     THEN Refuse(Reply("updateBooking", 404, "NotFound"))
     ELSE Goto(p, "write", UpdLocal(id, data, bookings[id], bookings[id], 0))

\* const doc = await BookingModel.findByIdAndUpdate(id, data, { new: true });
\* no document: updateBooking returns undefined and the route answers 404
UpdWrite(p) ==
  /\ pc[p] = "write"
  /\ UNCHANGED <<rides, nextRideId, nextBookingId, listed, users>>
  /\ bookings' = writeBooking(bookings, local[p].id, local[p].data)
  /\ IF local[p].id \in DOMAIN bookings
     THEN Goto(p, "getRide", [local[p] EXCEPT !.booking = bookings'[local[p].id]])
     ELSE Finish(p, Reply("updateBooking", 404, "NotFound"))

\* const ride = await this.getRide(booking.rideId), then the refund conditions
UpdGetRide(p) ==
  /\ pc[p] = "getRide"
  /\ UNCHANGED <<db, listed, users>>
  /\ IF /\ local[p].booking.rideId \in DOMAIN rides
        /\ refundDue(local[p].data, local[p].existing)
     THEN Goto(p, "refund", [local[p] EXCEPT !.seatsAvailable =
                               rides[local[p].booking.rideId].seatsAvailable])
     ELSE Finish(p, Reply("updateBooking", 200, ""))

\* await this.updateRide(ride.id, { seatsAvailable: ride.seatsAvailable + booking.seatsBooked })
UpdRefund(p) ==
  /\ pc[p] = "refund"
  /\ rides' = updateRide(rides, local[p].booking.rideId,
                [seatsAvailable |-> local[p].seatsAvailable + local[p].booking.seatsBooked])
  /\ Finish(p, Reply("updateBooking", 200, ""))
  /\ UNCHANGED <<bookings, nextRideId, nextBookingId, listed, users>>

\* what the caller of a route without a catch sees when a store call
\* rejects: no response at all (0) or the framework's 500
UnhandledCodes == {0, 500}

\* this.getBooking rejects: the route has no catch
UpdGetBookingThrows(p, id, code) ==
  /\ pc[p] = "idle"
  /\ Refuse(Reply("updateBooking", code, "Unhandled"))
  /\ UNCHANGED <<db, listed, users>>

\* the store call updateBooking waits for rejects: what was written stays
UpdThrows(p, code) ==
  /\ pc[p] \in {"write", "getRide", "refund"}
  /\ Finish(p, Reply("updateBooking", code, "Unhandled"))
  /\ UNCHANGED <<db, listed, users>>

\* ---------------------------------------------------------------- DELETE /api/rides/:id, one step per await
\* locals of a MongoStorage.deleteRide call: the ride id, the pending
\* bookings found, and those of them still to be rejected
DelLocal(id, found) == [rideId |-> id, found |-> found, todo |-> found]

\* const bookings = await BookingModel.find({ rideId: id, status: "pending" })
DelFind(p, id) ==
  /\ pc[p] = "idle"
  /\ Goto(p, "reject", DelLocal(id, PendingOn(bookings, id)))
  /\ UNCHANGED <<db, listed, users>>

\* await BookingModel.findByIdAndUpdate(booking._id, { status: "rejected" })
DelReject(p) ==
  /\ pc[p] = "reject"
  /\ local[p].todo # {}
  /\ LET b == FirstOf(local[p].todo) IN
       /\ bookings' = writeBooking(bookings, b, [status |-> "rejected"])
       /\ local' = [local EXCEPT ![p].todo = @ \ {b}]
  /\ UNCHANGED <<rides, nextRideId, nextBookingId, resp, pc, listed, users>>

\* const result = await RideModel.findByIdAndDelete(id); return !!result
DelRemove(p) ==
  /\ pc[p] = "reject"
  /\ local[p].todo = {}
  /\ rides' = removeRide(rides, local[p].rideId)
  /\ Finish(p, IF local[p].rideId \in DOMAIN rides
               THEN Reply("deleteRide", 200, "")
               ELSE Reply("deleteRide", 404, "NotFound"))
  /\ UNCHANGED <<bookings, nextRideId, nextBookingId, listed, users>>

\* BookingModel.find rejects: the route has no catch
DelFindThrows(p, id, code) ==
  /\ pc[p] = "idle"
  /\ Refuse(Reply("deleteRide", code, "Unhandled"))
  /\ UNCHANGED <<db, listed, users>>

\* the store call deleteRide waits for rejects (the next write of the loop
\* if bookings remain, else findByIdAndDelete): the writes made so far stay,
\* the ride is not removed
DelThrows(p, code) ==
  /\ pc[p] = "reject"
  /\ Finish(p, Reply("deleteRide", code, "Unhandled"))
  /\ UNCHANGED <<db, listed, users>>

\* ---------------------------------------------------------------- PATCH /api/rides/:id/status
\* rideSchema.status enum
RideStatus == {"scheduled", "ongoing", "completed"}

\* the update PATCH /api/rides/:id/status builds from its body
rideStatusUpdateOnly(status) == [status |-> status]

rideStatusUpdate(status) ==
  IF status = "completed"
  THEN [status |-> status, isActive |-> FALSE]
  ELSE [status |-> status]

\* PATCH /api/rides/:id/status: one store call; answers with the updated
\* ride, or an empty body when there is no such ride
SetRideStatus(id, status) ==
  /\ rides' = updateRide(rides, id, rideStatusUpdate(status))
  /\ resp' = Reply("setRideStatus", 200, "")
  /\ UNCHANGED <<bookings, nextRideId, nextBookingId, pc, local, listed, users>>

\* ---------------------------------------------------------------- listings, one step per await
\* one row of a listing: the booking and the ride getBookingWithDetails read
Row(id, booking, ride) == [id |-> id, booking |-> booking, ride |-> ride]

\* locals of a getBookingsByRide / getBookingsByPassenger call: the ids
\* find() returned that are still to be looked up, the rows pushed so far,
\* the booking read for the id being looked up, and the row made of it once
\* its ride is read
ListLocal(by, rideId, passengerId, todo, out, cur) ==
  [by |-> by, rideId |-> rideId, passengerId |-> passengerId, todo |-> todo,
   out |-> out, cur |-> cur, row |-> NoLocal]

\* the bookings a listing's find() matches
Matching(bks, by, rideId, passengerId) ==
  IF by = "ride"
  THEN {b \in DOMAIN bks : bks[b].rideId = rideId}
  ELSE {b \in DOMAIN bks : bks[b].passengerId = passengerId}

\* MongoStorage.getBookingWithDetails returns a value: the booking and its
\* ride exist (a missing passenger is replaced by a placeholder user)
HasDetails(bks, rs, id) == id \in DOMAIN bks /\ bks[id].rideId \in DOMAIN rs

\* the rows of the ids that have details, on a store nobody writes
RECURSIVE WithDetails(_, _, _)
WithDetails(bks, rs, ids) ==
  IF ids = <<>> THEN <<>>
  ELSE (IF HasDetails(bks, rs, Head(ids))
        THEN <<Row(Head(ids), bks[Head(ids)], rs[bks[Head(ids)].rideId])>>
        ELSE <<>>)
         \o WithDetails(bks, rs, Tail(ids))

\* MongoStorage.getBookingsByRide on a store nobody writes
getBookingsByRide(bks, rs, rideId) ==
  WithDetails(bks, rs, InOrder(Matching(bks, "ride", rideId, "")))

\* MongoStorage.getBookingsByPassenger on a store nobody writes
getBookingsByPassenger(bks, rs, passengerId) ==
  WithDetails(bks, rs, InOrder(Matching(bks, "passenger", 0, passengerId)))

\* return results
ListReturn(p, l, out) ==
  /\ listed' = Listing(l.by, l.rideId, l.passengerId, out)
  /\ Finish(p, Reply(IF l.by = "ride" THEN "listForRide" ELSE "listForPassenger", 200, ""))

\* the method goes on to its next store call
ListGoto(p, label, l) ==
  /\ Goto(p, label, l)
  /\ UNCHANGED listed

\* the loop moves to the next id, or the method returns
ListAdvance(p, l, out) ==
  IF Tail(l.todo) = <<>>
  THEN ListReturn(p, l, out)
  ELSE ListGoto(p, "listBooking", [l EXCEPT !.todo = Tail(@), !.out = out])

\* a find() that also rejects the pending bookings it returns
ListFindRejecting(p, by, rideId, passengerId) ==
  LET l == ListLocal(by, rideId, passengerId,
                     InOrder(Matching(bookings, by, rideId, passengerId)), <<>>, NoLocal) IN
  /\ pc[p] = "idle"
  /\ bookings' = [b \in DOMAIN bookings |->
                    IF b \in Matching(bookings, by, rideId, passengerId)
                       /\ bookings[b].status = "pending"
                    THEN Merge(bookings[b], [status |-> "rejected"])
                    ELSE bookings[b]]
  /\ UNCHANGED <<rides, nextRideId, nextBookingId, users>>
  /\ IF l.todo = <<>>
     THEN ListReturn(p, l, <<>>)
     ELSE ListGoto(p, "listBooking", l)

\* const bookings = await BookingModel.find({ rideId }) / find({ passengerId })
ListFind(p, by, rideId, passengerId) ==
  LET l == ListLocal(by, rideId, passengerId,
                     InOrder(Matching(bookings, by, rideId, passengerId)), <<>>, NoLocal) IN
  /\ pc[p] = "idle"
  /\ UNCHANGED <<db, users>>
  /\ IF l.todo = <<>>
     THEN ListReturn(p, l, <<>>)
     ELSE ListGoto(p, "listBooking", l)

\* getBookingWithDetails: const booking = await this.getBooking(id)
ListGetBooking(p) ==
  /\ pc[p] = "listBooking"
  /\ UNCHANGED <<db, users>>
  /\ IF Head(local[p].todo) \in DOMAIN bookings
     THEN ListGoto(p, "listRide", [local[p] EXCEPT !.cur = bookings[Head(local[p].todo)]])
     ELSE ListAdvance(p, local[p], local[p].out)

\* getBookingWithDetails: const ride = await this.getRide(booking.rideId);
\* without a ride there is no row, with one the method goes on to the users
ListGetRide(p) ==
  /\ pc[p] = "listRide"
  /\ UNCHANGED <<db, users>>
  /\ IF local[p].cur.rideId \in DOMAIN rides
     THEN ListGoto(p, "listPassenger",
            [local[p] EXCEPT !.row = Row(Head(local[p].todo), local[p].cur,
                                         rides[local[p].cur.rideId])])
     ELSE ListAdvance(p, local[p], local[p].out)

\* getBookingWithDetails: const passenger = await this.getUser(booking.passengerId);
\* a missing passenger is replaced by a placeholder, the row stays
ListGetPassenger(p) ==
  /\ pc[p] = "listPassenger"
  /\ UNCHANGED <<db, users>>
  /\ ListGoto(p, "listDriver", local[p])

\* getBookingWithDetails: const driver = await this.getUser(ride.driverId);
\* the row is returned and pushed, the loop goes on
ListGetDriver(p) ==
  /\ pc[p] = "listDriver"
  /\ UNCHANGED <<db, users>>
  /\ ListAdvance(p, local[p], Append(local[p].out, local[p].row))

\* listForRide(rideId)
ListForRide(p, rideId) == ListFind(p, "ride", rideId, "")

\* listForPassenger(passengerId)
ListForPassenger(p, passengerId) == ListFind(p, "passenger", 0, passengerId)

\* ---------------------------------------------------------------- user accounts
\* POST /api/auth/signup with a valid body: const existing = await
\* storage.getUserByEmail(email)
SignupCheck(p, email) ==
  /\ pc[p] = "idle"
  /\ UNCHANGED <<db, listed, users>>
  /\ IF emailTaken(users, email)
     THEN Refuse(Reply("signup", 400, "EmailRegistered"))
     ELSE Goto(p, "createUser", [email |-> email])

\* const user = await storage.createUser({ ... }); the unique index on email
\* rejects a second document with the email, and the catch answers with the
\* store's message
SignupCreate(p) ==
  /\ pc[p] = "createUser"
  /\ UNCHANGED <<db, listed>>
  /\ IF duplicateKey(users, "", local[p].email)
     THEN /\ Finish(p, Reply("signup", 400, "DuplicateKey"))
          /\ UNCHANGED users
     ELSE /\ users' = [users EXCEPT ![freshUser(users, UserOrder)] =
                         User(local[p].email, "present")]
          /\ Finish(p, Reply("signup", 200, ""))

\* PATCH /api/users/:id with body { email }: one store call, updateUser(id, req.body)
UpdateUser(id, email) ==
  /\ UNCHANGED <<db, pc, local, listed>>
  /\ IF users[id].state # "present"
     THEN /\ resp' = Reply("updateUser", 404, "NotFound")
          /\ UNCHANGED users
     ELSE IF duplicateKey(users, id, email)
     THEN /\ resp' = Reply("updateUser", 400, "UpdateFailed")
          /\ UNCHANGED users
     ELSE /\ users' = [users EXCEPT ![id].email = email]
          /\ resp' = Reply("updateUser", 200, "")

\* locals of a MongoStorage.deleteUser call: the user id; the rides found
\* whose deleteRide has not made its find() yet; for each deleteRide that
\* has, the bookings still to be rejected; whether deleteMany has run
DULocal(id, toScan, scans, many) ==
  [userId |-> id, toScan |-> toScan, scans |-> scans, many |-> many]

\* const driverRides = await RideModel.find({ driverId: id }); Promise.all
\* then starts one deleteRide per ride and the deleteMany calls
DUFind(p, id) ==
  /\ pc[p] = "idle"
  /\ Goto(p, "deleteAll", DULocal(id, driverRides(rides, id), <<>>, FALSE))
  /\ UNCHANGED <<db, listed, users>>

\* deleteRide(ride._id): await BookingModel.find({ rideId, status: "pending" })
DUScan(p, r) ==
  /\ pc[p] = "deleteAll"
  /\ r \in local[p].toScan
  /\ local' = [local EXCEPT ![p].toScan = @ \ {r},
                            ![p].scans = @ @@ (r :> PendingOn(bookings, r))]
  /\ UNCHANGED <<db, resp, pc, listed, users>>

\* deleteRide(ride._id): await BookingModel.findByIdAndUpdate(booking._id, { status: "rejected" })
DUReject(p, r) ==
  /\ pc[p] = "deleteAll"
  /\ r \in DOMAIN local[p].scans
  /\ local[p].scans[r] # {}
  /\ LET b == FirstOf(local[p].scans[r]) IN
       /\ bookings' = writeBooking(bookings, b, [status |-> "rejected"])
       /\ local' = [local EXCEPT ![p].scans[r] = @ \ {b}]
  /\ UNCHANGED <<rides, nextRideId, nextBookingId, resp, pc, listed, users>>

\* deleteRide(ride._id): await RideModel.findByIdAndDelete(id)
DURemove(p, r) ==
  /\ pc[p] = "deleteAll"
  /\ r \in DOMAIN local[p].scans
  /\ local[p].scans[r] = {}
  /\ rides' = removeRide(rides, r)
  /\ local' = [local EXCEPT ![p].scans =
                 [x \in DOMAIN local[p].scans \ {r} |-> local[p].scans[x]]]
  /\ UNCHANGED <<bookings, nextRideId, nextBookingId, resp, pc, listed, users>>

\* BookingModel.deleteMany({ passengerId: id })
DUDeleteMany(p) ==
  /\ pc[p] = "deleteAll"
  /\ ~local[p].many
  /\ bookings' = deleteBookingsOf(bookings, local[p].userId)
  /\ local' = [local EXCEPT ![p].many = TRUE]
  /\ UNCHANGED <<rides, nextRideId, nextBookingId, resp, pc, listed, users>>

\* Promise.all has settled: const result = await
\* UserModel.findByIdAndDelete(id); return !!result
DURemoveUser(p) ==
  /\ pc[p] = "deleteAll"
  /\ local[p].toScan = {}
  /\ DOMAIN local[p].scans = {}
  /\ local[p].many
  /\ UNCHANGED <<db, listed>>
  /\ IF users[local[p].userId].state = "present"
     THEN /\ users' = [users EXCEPT ![local[p].userId].state = "deleted"]
          /\ Finish(p, Reply("deleteUser", 200, ""))
     ELSE /\ UNCHANGED users
          /\ Finish(p, Reply("deleteUser", 404, "NotFound"))

\* ---------------------------------------------------------------- MemStorage variant
\* the rides MemStorage seeds: ride-1, ride-2, ride-3
SeedRides ==
  <<[driverId |-> "driver-1", seatsTotal |-> 3, seatsAvailable |-> 2, isActive |-> TRUE],
    [driverId |-> "driver-2", seatsTotal |-> 4, seatsAvailable |-> 4, isActive |-> TRUE],
    [driverId |-> "driver-1", seatsTotal |-> 3, seatsAvailable |-> 3, isActive |-> TRUE]>>

\* booking-1 of the seed data
SeedBookings ==
  <<[rideId |-> 1, passengerId |-> "passenger-1", status |-> "accepted", seatsBooked |-> 1]>>

MemRideIds == DOMAIN SeedRides

\* the passenger MemStorage seeds
MemPassengers == {"passenger-1"}

\* the ids createUser hands out after the seeded users
MemUserOrder == <<"user-4">>

\* the users MemStorage seeds, and the ids still to be handed out
SeedUsers ==
  [u \in {"driver-1", "driver-2", "passenger-1", "user-4"} |->
     IF u = "driver-1" THEN User("ahmed.khan@university.edu.pk", "present")
     ELSE IF u = "driver-2" THEN User("sara.ahmed@university.edu.pk", "present")
     ELSE IF u = "passenger-1" THEN User("ali.raza@university.edu.pk", "present")
     ELSE User("", "unused")]

\* the emails of the variant's signup and profile requests
MemEmails ==
  {"ali.raza@university.edu.pk", "Ali.Raza@University.edu.pk", "new@university.edu.pk"}

\* the seeded booking and up to MaxBookings created ones
MemBookingIds == 1..(Len(SeedBookings) + MaxBookings)

InitMem ==
  /\ rides = SeedRides
  /\ bookings = SeedBookings
  /\ nextRideId = Len(SeedRides) + 1
  /\ nextBookingId = Len(SeedBookings) + 1
  /\ resp = NoReply
  /\ pc = [p \in Procs |-> "idle"]
  /\ local = [p \in Procs |-> NoLocal]
  /\ listed = NoList
  /\ users = SeedUsers

\* the limits that keep the variant's scenarios finite: they say which
\* requests a scenario sends, a handler in flight always runs to its end
MemBookingsBounded ==
  nextBookingId + Cardinality({p \in Procs : pc[p] = "memCreate"}) \in MemBookingIds

MemRidesBounded == nextRideId <= Len(SeedRides) + 1

MemSeatsBounded == \A r \in DOMAIN rides : rides[r].seatsAvailable <= 3 * MaxSeats

\* { ...doc, ...data }: the fields of data replace or extend those of doc
memSpread(doc, data) ==
  [f \in DOMAIN doc \cup DOMAIN data |-> IF f \in DOMAIN data THEN data[f] ELSE doc[f]]

\* MemStorage.createRide: the ride is the body with an id, nothing is added
\* (a body without isActive gives a ride without isActive)
memCreateRide(rs, id, insertRide) == rs @@ (id :> insertRide)

\* MemStorage.updateRide: the body is spread over the ride, if there is one
memUpdateRide(rs, id, data) ==
  [r \in DOMAIN rs |-> IF r = id THEN memSpread(rs[r], data) ELSE rs[r]]

\* toLowerCase() of the email spellings the requests use
toLowerCase(email) ==
  IF email = "Ali.Raza@University.edu.pk" THEN "ali.raza@university.edu.pk" ELSE email

\* MemStorage.getUserByEmail: emails are compared without regard to case
memEmailTaken(us, email) ==
  \E u \in DOMAIN us :
    us[u].state = "present" /\ toLowerCase(us[u].email) = toLowerCase(email)

\* the counter MemStorage.updateBooking writes, from the seat count its
\* getRide returned and the booking before the write
memSeats(data, booking, seatsAvailable) ==
  IF data.status = "accepted"
  THEN (IF seatsAvailable - booking.seatsBooked > 0
        THEN seatsAvailable - booking.seatsBooked ELSE 0)
  ELSE seatsAvailable + booking.seatsBooked

\* MemStorage.updateBooking reads the ride: one of its two conditions holds
memSeatsDue(data, booking) ==
  \/ data.status = "accepted"
  \/ (data.status = "cancelled" /\ booking.status = "accepted")

\* the variant's POST /api/rides: createRide stores at the call. success is
\* result.success of insertRideSchema.safeParse(req.body), an input as in
\* CreateRide
MemCreateRide(driverId, seatsTotal, seatsAvailable, success) ==
  LET body == [driverId |-> driverId, seatsTotal |-> seatsTotal,
               seatsAvailable |-> seatsAvailable] IN
  /\ UNCHANGED <<bookings, nextBookingId, pc, local, listed, users>>
  /\ IF ~success
     THEN /\ resp' = Reply("createRide", 400, "ValidationError")
          /\ UNCHANGED <<rides, nextRideId>>
     ELSE /\ rides' = memCreateRide(rides, nextRideId, body)
          /\ nextRideId' = nextRideId + 1
          /\ resp' = Reply("createRide", 200, "")

\* request bodies of the variant's PATCH /api/rides/:id: any partial ride
RidePatchBodies ==
  {[seatsAvailable |-> 0], [seatsAvailable |-> 9, seatsTotal |-> 1], [isActive |-> FALSE]}

\* the variant's PATCH /api/rides/:id: MemStorage.updateRide(id, req.body)
\* merges the body into the ride at the call
MemPatchRide(id, data) ==
  /\ rides' = memUpdateRide(rides, id, data)
  /\ resp' = IF id \in DOMAIN rides
             THEN Reply("patchRide", 200, "")
             ELSE Reply("patchRide", 404, "NotFound")
  /\ UNCHANGED <<bookings, nextRideId, nextBookingId, pc, local, listed, users>>

\* the variant's POST /api/bookings: body validation; MemStorage.getRide
\* reads the ride at the call, the handler goes on after the await
MemReqGetRide(p, rideId, passengerId, seatsBooked) ==
  LET body == [rideId |-> rideId, passengerId |-> passengerId,
               seatsBooked |-> seatsBooked] IN
  /\ pc[p] = "idle"
  /\ UNCHANGED <<db, listed, users>>
  /\ IF ~createBookingSchema(body)
     THEN Refuse(Reply("requestBooking", 400, "ValidationError"))
     ELSE IF rideId \notin DOMAIN rides
     THEN Refuse(Reply("requestBooking", 404, "NotFound"))
     ELSE IF ~HasCapacity(rides[rideId].seatsAvailable, seatsBooked)
     THEN Refuse(Reply("requestBooking", 400, "InsufficientSeats"))
     ELSE Goto(p, "memCreate",
               ReqLocal(rideId, passengerId, seatsBooked, rides[rideId].seatsAvailable))

\* MemStorage.createBooking stores the booking at the call; nothing is reserved
MemReqCreate(p) ==
  /\ pc[p] = "memCreate"
  /\ bookings' = createBooking(bookings, nextBookingId,
                    [rideId |-> local[p].rideId, passengerId |-> local[p].passengerId,
                     status |-> "pending", seatsBooked |-> local[p].seatsBooked])
  /\ nextBookingId' = nextBookingId + 1
  /\ Finish(p, Reply("requestBooking", 200, ""))
  /\ UNCHANGED <<rides, nextRideId, listed, users>>

\* the variant's PATCH /api/bookings/:id: MemStorage.updateBooking stores the
\* merged booking at the call and, for a status that moves seats, reads the
\* ride at the call too; the ride is written after the await
MemUpdStart(p, id, data) ==
  /\ pc[p] = "idle"
  /\ UNCHANGED <<rides, nextRideId, nextBookingId, listed, users>>
  /\ bookings' = writeBooking(bookings, id, data)
  /\ IF id \notin DOMAIN bookings
     THEN Refuse(Reply("updateBooking", 404, "NotFound"))
     ELSE IF memSeatsDue(data, bookings[id]) /\ bookings[id].rideId \in DOMAIN rides
     THEN Goto(p, "memRide",
               UpdLocal(id, data, bookings[id], bookings'[id],
                        rides[bookings[id].rideId].seatsAvailable))
     ELSE Refuse(Reply("updateBooking", 200, ""))

\* await this.updateRide(ride.id, { seatsAvailable: ... }), from the ride read before
MemUpdRide(p) ==
  /\ pc[p] = "memRide"
  /\ rides' = memUpdateRide(rides, local[p].existing.rideId,
                [seatsAvailable |->
                   memSeats(local[p].data, local[p].existing, local[p].seatsAvailable)])
  /\ Finish(p, Reply("updateBooking", 200, ""))
  /\ UNCHANGED <<bookings, nextRideId, nextBookingId, listed, users>>

\* the variant's DELETE /api/rides/:id: getBookingsByRideInternal(id) reads
\* the bookings at the call; the loop keeps those that were pending
MemDelFind(p, id) ==
  /\ pc[p] = "idle"
  /\ Goto(p, "memReject", DelLocal(id, PendingOn(bookings, id)))
  /\ UNCHANGED <<db, listed, users>>

\* await this.updateBooking(booking.id, { status: "rejected" })
MemDelReject(p) ==
  /\ pc[p] = "memReject"
  /\ local[p].todo # {}
  /\ LET b == FirstOf(local[p].todo) IN
       /\ bookings' = writeBooking(bookings, b, [status |-> "rejected"])
       /\ local' = [local EXCEPT ![p].todo = @ \ {b}]
  /\ UNCHANGED <<rides, nextRideId, nextBookingId, resp, pc, listed, users>>

\* return this.rides.delete(id)
MemDelRemove(p) ==
  /\ pc[p] = "memReject"
  /\ local[p].todo = {}
  /\ rides' = removeRide(rides, local[p].rideId)
  /\ Finish(p, IF local[p].rideId \in DOMAIN rides
               THEN Reply("deleteRide", 200, "")
               ELSE Reply("deleteRide", 404, "NotFound"))
  /\ UNCHANGED <<bookings, nextRideId, nextBookingId, listed, users>>

\* the variant's POST /api/auth/signup: MemStorage.getUserByEmail reads at the call
MemSignupCheck(p, email) ==
  /\ pc[p] = "idle"
  /\ UNCHANGED <<db, listed, users>>
  /\ IF memEmailTaken(users, email)
     THEN Refuse(Reply("signup", 400, "EmailRegistered"))
     ELSE Goto(p, "memCreateUser", [email |-> email])

\* MemStorage.createUser stores the user at the call; the map has no unique index
MemSignupCreate(p) ==
  /\ pc[p] = "memCreateUser"
  /\ users' = [users EXCEPT ![freshUser(users, MemUserOrder)] =
                 User(local[p].email, "present")]
  /\ Finish(p, Reply("signup", 200, ""))
  /\ UNCHANGED <<db, listed>>

\* the variant's PATCH /api/users/:id with body { email }: MemStorage.updateUser
MemUpdateUser(id, email) ==
  /\ UNCHANGED <<db, pc, local, listed>>
  /\ IF users[id].state # "present"
     THEN /\ resp' = Reply("updateUser", 404, "NotFound")
          /\ UNCHANGED users
     ELSE /\ users' = [users EXCEPT ![id].email = email]
          /\ resp' = Reply("updateUser", 200, "")

\* ---------------------------------------------------------------- scenarios
\* one handler of POST /api/bookings and one of another route in flight
Requesters == {"h1"}

Updaters == {"h2"}

Deleters == {"h2"}

\* the statuses whose write can refund seats
RefundingStatus == {"rejected", "cancelled"}

\* POST /api/rides while no request is in flight. The bodies posted offer
\* every seat of the ride (seatsAvailable = seatsTotal >= 1); the parse of a
\* body may succeed or fail
NewRide == \E t \in 1..MaxSeats, d \in Drivers, ok \in BOOLEAN :
             CreateRide(d, t, t, ok) /\ RidesBounded /\ Idle

\* POST /api/rides at any time
NewRideAnyTime == \E t \in 1..MaxSeats, d \in Drivers, ok \in BOOLEAN :
                    CreateRide(d, t, t, ok) /\ RidesBounded

\* the steps of the POST /api/bookings handlers P
Request(P) ==
  \/ \E p \in P, r \in RideIds, u \in Users, n \in 0..MaxSeats :
       ReqGetRide(p, r, u, n) /\ BookingsBounded
  \/ \E p \in P : ReqCreateBooking(p)
  \/ \E p \in P : ReqUpdateRide(p)

\* the steps of the PATCH /api/bookings/:id handlers P with the bodies B
Update(P, B) ==
  \/ \E p \in P, b \in BookingIds, d \in B : UpdGetBooking(p, b, d) /\ SeatsBounded
  \/ \E p \in P : UpdWrite(p)
  \/ \E p \in P : UpdGetRide(p)
  \/ \E p \in P : UpdRefund(p)

\* the steps of the DELETE /api/rides/:id handlers P
Delete(P) ==
  \/ \E p \in P, r \in RideIds : DelFind(p, r)
  \/ \E p \in P : DelReject(p)
  \/ \E p \in P : DelRemove(p)

StatusBodies == {[status |-> s] : s \in BookingStatus}

RefundBodies == {[status |-> s] : s \in RefundingStatus}

Next ==
  \/ NewRide
  \/ Request(Serial)
  \/ Update(Serial, StatusBodies)
  \/ Delete(Serial)

Spec == Init /\ [][Next]_vars

NextConc ==
  \/ NewRideAnyTime
  \/ Request(Procs)

SpecConc == Init /\ [][NextConc]_vars

NextRace ==
  \/ NewRideAnyTime
  \/ Request(Requesters)
  \/ Update(Updaters, RefundBodies)

SpecRace == Init /\ [][NextRace]_vars

NextStatus ==
  \/ NewRideAnyTime
  \/ Request(Requesters)
  \/ Update(Updaters, StatusBodies)

SpecStatus == Init /\ [][NextStatus]_vars

NextDel ==
  \/ NewRideAnyTime
  \/ Request(Requesters)
  \/ Delete(Deleters)

SpecDel == Init /\ [][NextDel]_vars

NextFail ==
  \/ NewRide
  \/ Request(Serial)
  \/ \E p \in Serial, r \in RideIds, u \in Users, n \in 0..MaxSeats :
       ReqGetRideThrows(p, r, u, n)
  \/ \E p \in Serial : ReqThrows(p)
  \/ Update(Serial, StatusBodies)
  \/ \E p \in Serial, b \in BookingIds, c \in UnhandledCodes : UpdGetBookingThrows(p, b, c)
  \/ \E p \in Serial, c \in UnhandledCodes : UpdThrows(p, c)

SpecFail == Init /\ [][NextFail]_vars

NextCascade ==
  \/ NewRideAnyTime
  \/ Request(Requesters)
  \/ Delete(Deleters)
  \/ \E p \in Deleters, r \in RideIds, c \in UnhandledCodes : DelFindThrows(p, r, c)
  \/ \E p \in Deleters, c \in UnhandledCodes : DelThrows(p, c)

SpecCascade == Init /\ [][NextCascade]_vars

NextRead ==
  \/ NewRide
  \/ Request(Serial)
  \/ Delete(Serial)
  \/ \E p \in Serial, r \in RideIds : ListForRide(p, r)
  \/ \E p \in Serial, u \in Users : ListForPassenger(p, u)
  \/ \E p \in Serial : ListGetBooking(p)
  \/ \E p \in Serial : ListGetRide(p)
  \/ \E p \in Serial : ListGetPassenger(p)
  \/ \E p \in Serial : ListGetDriver(p)

SpecRead == Init /\ [][NextRead]_vars

\* a listing against DELETE /api/rides/:id
NextReadRace ==
  \/ NewRideAnyTime
  \/ Request(Deleters)
  \/ Delete(Deleters)
  \/ \E p \in Requesters, r \in RideIds : ListForRide(p, r)
  \/ \E p \in Requesters, u \in Users : ListForPassenger(p, u)
  \/ \E p \in Requesters : ListGetBooking(p)
  \/ \E p \in Requesters : ListGetRide(p)
  \/ \E p \in Requesters : ListGetPassenger(p)
  \/ \E p \in Requesters : ListGetDriver(p)

SpecReadRace == Init /\ [][NextReadRace]_vars

NextRide ==
  \/ NewRide
  \/ Request(Serial)
  \/ \E r \in RideIds, s \in RideStatus : SetRideStatus(r, s) /\ Idle
  \/ Delete(Serial)

SpecRide == Init /\ [][NextRide]_vars

\* the passenger of the scenarios with many bodies or rides
FramePassengers == {"u1"}

\* ride ids a body can name: those of RideIds, and 0 for an id no ride has
BodyRideIds == 0..MaxRides

\* request bodies of PATCH /api/bookings/:id: any partial booking
PatchBodies ==
  {[status |-> s] : s \in BookingStatus}
    \cup {[seatsBooked |-> n] : n \in 1..MaxSeats}
    \cup {[rideId |-> r] : r \in BodyRideIds}
    \cup {[status |-> s, seatsBooked |-> n] : s \in BookingStatus, n \in 1..MaxSeats}

NextPatch ==
  \/ NewRide
  \/ \E p \in Serial, r \in RideIds, u \in FramePassengers, n \in 0..MaxSeats :
       ReqGetRide(p, r, u, n) /\ BookingsBounded
  \/ \E p \in Serial : ReqCreateBooking(p)
  \/ \E p \in Serial : ReqUpdateRide(p)
  \/ Update(Serial, PatchBodies)

SpecPatch == Init /\ [][NextPatch]_vars

\* one ride more than MaxRides, so that a request has another ride to leave alone
FrameRides == MaxRides + 1

FrameRideIds == 1..FrameRides

NextFrame ==
  \/ \E t \in 1..MaxSeats, d \in Drivers, ok \in BOOLEAN :
       CreateRide(d, t, t, ok) /\ nextRideId <= FrameRides /\ Idle
  \/ \E p \in Serial, r \in FrameRideIds, u \in FramePassengers, n \in 0..MaxSeats :
       ReqGetRide(p, r, u, n) /\ BookingsBounded
  \/ \E p \in Serial : ReqCreateBooking(p)
  \/ \E p \in Serial : ReqUpdateRide(p)
  \/ Update(Serial, StatusBodies)

SpecFrame == Init /\ [][NextFrame]_vars

NextUser ==
  \/ \E p \in Procs, e \in Emails : SignupCheck(p, e) /\ UsersBounded(UserOrder, "createUser")
  \/ \E p \in Procs : SignupCreate(p)
  \/ \E u \in Users, e \in Emails : UpdateUser(u, e) /\ Idle
  \/ \E t \in 1..MaxSeats, d \in Users, ok \in BOOLEAN :
       CreateRide(d, t, t, ok) /\ RidesBounded /\ Idle
  \/ \E p \in Serial, r \in RideIds, u \in Users, n \in 1..MaxSeats :
       ReqGetRide(p, r, u, n) /\ BookingsBounded /\ Idle
  \/ \E p \in Serial : ReqCreateBooking(p)
  \/ \E p \in Serial : ReqUpdateRide(p)
  \/ \E p \in Serial, u \in Users : DUFind(p, u) /\ Idle
  \/ \E p \in Serial, r \in RideIds : DUScan(p, r)
  \/ \E p \in Serial, r \in RideIds : DUReject(p, r)
  \/ \E p \in Serial, r \in RideIds : DURemove(p, r)
  \/ \E p \in Serial : DUDeleteMany(p)
  \/ \E p \in Serial : DURemoveUser(p)

SpecUser == Init /\ [][NextUser]_vars

\* the steps of the variant's POST /api/bookings handlers P
MemRequest(P) ==
  \/ \E p \in P, r \in MemRideIds, u \in MemPassengers, n \in 0..MaxSeats :
       MemReqGetRide(p, r, u, n) /\ MemBookingsBounded
  \/ \E p \in P : MemReqCreate(p)

\* the steps of the variant's PATCH /api/bookings/:id handlers P
MemUpdate(P) ==
  \/ \E p \in P, b \in MemBookingIds, s \in BookingStatus :
       MemUpdStart(p, b, [status |-> s]) /\ MemSeatsBounded
  \/ \E p \in P : MemUpdRide(p)

NextMem ==
  \/ MemRequest(Serial)
  \/ MemUpdate(Serial)

SpecMem == InitMem /\ [][NextMem]_vars

\* two PATCH /api/bookings/:id calls of the variant in flight, on ride-3
NextMemRace ==
  \/ \E p \in Requesters : MemReqGetRide(p, 3, "passenger-1", 1) /\ MemBookingsBounded
  \/ \E p \in Requesters : MemReqCreate(p)
  \/ \E p \in Procs, b \in MemBookingIds, s \in {"accepted", "cancelled"} :
       MemUpdStart(p, b, [status |-> s]) /\ MemSeatsBounded
  \/ \E p \in Procs : MemUpdRide(p)

SpecMemRace == InitMem /\ [][NextMemRace]_vars

\* the variant's ride routes
NextMemRides ==
  \/ \E p \in Serial, r \in MemRideIds, u \in MemPassengers :
       MemReqGetRide(p, r, u, 1) /\ MemBookingsBounded
  \/ \E p \in Serial : MemReqCreate(p)
  \/ \E ok \in BOOLEAN :
       MemCreateRide("driver-1", 1, 1, ok) /\ MemRidesBounded /\ Idle
  \/ \E r \in MemRideIds, d \in RidePatchBodies : MemPatchRide(r, d) /\ Idle
  \/ \E p \in Serial, r \in MemRideIds : MemDelFind(p, r)
  \/ \E p \in Serial : MemDelReject(p)
  \/ \E p \in Serial : MemDelRemove(p)

SpecMemRides == InitMem /\ [][NextMemRides]_vars

\* the variant's account routes
NextMemUsers ==
  \/ \E p \in Procs, e \in MemEmails :
       MemSignupCheck(p, e) /\ UsersBounded(MemUserOrder, "memCreateUser")
  \/ \E p \in Procs : MemSignupCreate(p)
  \/ \E u \in DOMAIN SeedUsers, e \in MemEmails : MemUpdateUser(u, e)

SpecMemUsers == InitMem /\ [][NextMemUsers]_vars

\* ================================================================ properties
\* the transition table of the booking state machine
Allowed(old, new) ==
  <<old, new>> \in {<<"pending", "accepted">>, <<"pending", "rejected">>,
                    <<"pending", "cancelled">>, <<"accepted", "cancelled">>}

Refunding(old, new) ==
  <<old, new>> \in {<<"pending", "rejected">>, <<"pending", "cancelled">>,
                    <<"accepted", "cancelled">>}

Terminal == {"rejected", "cancelled"}

\* positions of a PATCH /api/bookings/:id handler after its first read
UpdPcs == {"write", "getRide", "refund"}

\* positions of a listing after its find()
ListPcs == {"listBooking", "listRide", "listPassenger", "listDriver"}

\* handler p takes this step and answers with it
Answers(p) == pc[p] # "idle" /\ pc'[p] = "idle"

\* every ride has its seats either available or held by a pending or
\* accepted booking
Conserved(rs, bks) ==
  \A r \in DOMAIN rs :
    rs[r].seatsAvailable + SumSeats(bks, ActiveOn(bks, r)) = rs[r].seatsTotal

\* C1: seat conservation -- for every ride, seatsAvailable plus the seats of
\* its pending and accepted bookings equals seatsTotal, in every state reached
\* by a sequence of requestBooking, setStatus and deactivateRide operations
\* (no operation in flight).
SeatConservation == Idle => Conserved(rides, bookings)

\* C2: every ride keeps 0 <= seatsAvailable <= seatsTotal.
SeatsWithinCapacity ==
  \A r \in DOMAIN rides :
    0 <= rides[r].seatsAvailable /\ rides[r].seatsAvailable <= rides[r].seatsTotal

\* C3: no oversell -- a booking request for more seats than the ride has
\* available at the check is refused at the check: it stores nothing and goes
\* no further, so every request past its check asked for no more seats than
\* it read.
NoOversell ==
  /\ [](\A p \in Procs :
          pc[p] \in {"create", "reserve"} => local[p].seatsBooked <= local[p].seatsAvailable)
  /\ [][\A p \in Procs, r \in RideIds, u \in Users, n \in 0..MaxSeats :
          (r \in DOMAIN rides /\ n > rides[r].seatsAvailable /\ ReqGetRide(p, r, u, n))
            => (resp'.code # 200 /\ pc'[p] = "idle" /\ db' = db)]_vars

\* a request was refused for lack of seats on a ride that is partly booked
NoOversellWitness ==
  /\ resp = Reply("requestBooking", 400, "InsufficientSeats")
  /\ \E r \in DOMAIN rides :
       /\ rides[r].seatsAvailable < rides[r].seatsTotal
       /\ rides[r].seatsAvailable < MaxSeats
       /\ ActiveOn(bookings, r) # {}

\* C4: two concurrent booking requests on one ride never reserve, together,
\* more seats than the ride had (no status change happens in SpecConc, so the
\* seats that were available are seatsTotal).
NoConcurrentOversell ==
  \A r \in DOMAIN rides :
    SumSeats(bookings, BookingsOn(bookings, r)) <= rides[r].seatsTotal

\* C5: transition completeness -- setStatus on an existing booking either
\* succeeds with the seat effect of the table, or fails with InvalidTransition
\* and changes neither the booking nor a seat counter.
TransitionCompleteness ==
  [][\A p \in Procs :
       /\ (pc[p] = "write" /\ pc'[p] # "write" /\ local[p].id \in DOMAIN bookings
           /\ ~Allowed(bookings[local[p].id].status, local[p].data.status))
            => bookings' = bookings
       /\ (pc[p] \in UpdPcs /\ Answers(p))
            => IF Allowed(local[p].existing.status, local[p].data.status)
               THEN /\ resp'.code = 200
                    /\ rides' # rides
                         => Refunding(local[p].existing.status, local[p].data.status)
               ELSE /\ resp'.msg = "InvalidTransition"
                    /\ rides' = rides]_vars

\* C6: rejected and cancelled are terminal -- the status of such a booking
\* never changes again, and every later setStatus on it fails with
\* InvalidTransition.
TerminalIsFinal ==
  [][/\ \A b \in DOMAIN bookings :
          bookings[b].status \in Terminal =>
            (b \in DOMAIN bookings' /\ bookings'[b].status = bookings[b].status)
     /\ \A p \in Procs :
          (pc[p] \in UpdPcs /\ Answers(p) /\ local[p].existing.status \in Terminal)
            => resp'.msg = "InvalidTransition"]_vars

\* C7: setStatus(rejected) on an accepted booking fails with InvalidTransition,
\* the booking stays accepted and the seat counters are unchanged.
AcceptedNotRejectable ==
  [][\A p \in Procs :
       (/\ pc[p] \in UpdPcs /\ pc'[p] # pc[p]
        /\ local[p].data.status = "rejected"
        /\ local[p].existing.status = "accepted")
         => /\ rides' = rides
            /\ local[p].id \in DOMAIN bookings => bookings'[local[p].id].status = "accepted"
            /\ Answers(p) => resp'.msg = "InvalidTransition"]_vars

\* C8: each refunding transition (pending -> rejected, pending -> cancelled,
\* accepted -> cancelled) raises the ride's seatsAvailable by exactly the
\* booking's seatsBooked: the write of the refund leaves the counter that much
\* above what it was.
RefundExact ==
  [][\A p \in Procs :
       (/\ pc[p] = "refund" /\ Answers(p) /\ resp'.code = 200
        /\ local[p].booking.rideId \in DOMAIN rides)
         => rides'[local[p].booking.rideId].seatsAvailable
              = rides[local[p].booking.rideId].seatsAvailable + local[p].booking.seatsBooked]_vars

\* C9: accepting a pending booking leaves every seat counter unchanged: no
\* step of the update writes a ride, and its write makes the booking accepted.
AcceptKeepsSeats ==
  [][\A p \in Procs :
       (/\ pc[p] \in UpdPcs /\ pc'[p] # pc[p]
        /\ local[p].data.status = "accepted"
        /\ local[p].existing.status = "pending")
         => /\ rides' = rides
            /\ (pc[p] = "write" /\ local[p].id \in DOMAIN bookings)
                 => bookings'[local[p].id].status = "accepted"]_vars

\* the only booking ever made was accepted by the last request and its seats
\* are still the ones reserved at request time
AcceptWitness ==
  /\ resp = Reply("updateBooking", 200, "")
  /\ Idle
  /\ nextBookingId = 2
  /\ bookings[1].status = "accepted"
  /\ bookings[1].rideId \in DOMAIN rides
  /\ rides[bookings[1].rideId].seatsAvailable =
       rides[bookings[1].rideId].seatsTotal - bookings[1].seatsBooked

\* C10: a booking request with 1 <= seatsBooked <= seatsAvailable succeeds,
\* creates exactly one booking (pending, that ride, that passenger, that many
\* seats) and lowers the ride's seatsAvailable by exactly seatsBooked: the
\* write of the reservation leaves the counter that much below what it was.
ReserveOnRequest ==
  [][\A p \in Procs :
       /\ (pc[p] = "create" /\ pc'[p] = "reserve")
            => /\ DOMAIN bookings' = DOMAIN bookings \cup {nextBookingId}
               /\ nextBookingId \notin DOMAIN bookings
               /\ bookings'[nextBookingId] =
                    [rideId |-> local[p].rideId, passengerId |-> local[p].passengerId,
                     status |-> "pending", seatsBooked |-> local[p].seatsBooked]
               /\ \A b \in DOMAIN bookings : bookings'[b] = bookings[b]
       /\ (pc[p] = "reserve" /\ Answers(p) /\ local[p].rideId \in DOMAIN rides)
            => /\ resp'.code = 200
               /\ rides'[local[p].rideId].seatsAvailable
                    = rides[local[p].rideId].seatsAvailable - local[p].seatsBooked]_vars

\* C11: a valid booking request for more seats than the ride has available
\* fails with InsufficientSeats; no booking is created and the ride's
\* seatsAvailable is unchanged.
InsufficientSeatsRefused ==
  [][\A p \in Procs, r \in RideIds, u \in Users, n \in 1..MaxSeats :
       (r \in DOMAIN rides /\ n > rides[r].seatsAvailable /\ ReqGetRide(p, r, u, n))
         => /\ resp' = Reply("requestBooking", 400, "InsufficientSeats")
            /\ DOMAIN bookings' = DOMAIN bookings
            /\ nextBookingId' = nextBookingId
            /\ rides'[r].seatsAvailable = rides[r].seatsAvailable
            /\ pc' = pc]_vars

\* Scenario B: a ride with one seat left (two of three held by the only
\* booking) has just refused a request
InsufficientSeatsWitness ==
  /\ resp = Reply("requestBooking", 400, "InsufficientSeats")
  /\ Idle
  /\ nextBookingId = 2
  /\ \E r \in DOMAIN rides :
       /\ rides[r].seatsTotal = 3
       /\ rides[r].seatsAvailable = 1
       /\ bookings[1].rideId = r /\ bookings[1].seatsBooked = 2
       /\ bookings[1].status = "pending"

\* C12: a valid booking request on a ride id that does not exist fails with
\* NotFound; it creates no booking and changes no ride.
MissingRideNotFound ==
  [][\A p \in Procs, r \in RideIds, u \in Users, n \in 1..MaxSeats :
       (r \notin DOMAIN rides /\ ReqGetRide(p, r, u, n))
         => /\ resp' = Reply("requestBooking", 404, "NotFound")
            /\ db' = db
            /\ pc' = pc]_vars

\* a request on a ride that was deleted has just been answered NotFound,
\* while a booking of that ride is still stored
MissingRideWitness ==
  /\ resp = Reply("requestBooking", 404, "NotFound")
  /\ nextRideId = 2
  /\ 1 \notin DOMAIN rides
  /\ 1 \in DOMAIN bookings
  /\ bookings[1].rideId = 1

\* C13: setStatus on a booking id that does not exist fails with NotFound and
\* changes no booking and no seat counter.
MissingBookingNotFound ==
  [][\A p \in Procs, b \in BookingIds, d \in StatusBodies :
       (b \notin DOMAIN bookings /\ UpdGetBooking(p, b, d))
         => /\ resp' = Reply("updateBooking", 404, "NotFound")
            /\ db' = db
            /\ pc' = pc]_vars

\* a status update on the id of a booking never made has just been answered
\* NotFound, while another booking holds seats on a ride
MissingBookingWitness ==
  /\ resp = Reply("updateBooking", 404, "NotFound")
  /\ nextBookingId = 2
  /\ bookings[1].status = "pending"
  /\ bookings[1].rideId \in DOMAIN rides
  /\ rides[bookings[1].rideId].seatsAvailable < rides[bookings[1].rideId].seatsTotal

\* C14: the two writes of a booking request are one unit -- a request that
\* fails part-way tells the caller and leaves no booking of its own in the
\* store (a booking without its seats deducted).
RequestIsOneUnit ==
  [][\A p \in Procs :
       (pc[p] \in {"create", "reserve"} /\ Answers(p) /\ resp'.msg = "BookingFailed")
         => /\ resp'.code # 200
            /\ local[p].bookingId \notin DOMAIN bookings']_vars

\* C15: a refunding setStatus whose refund cannot be applied, because the
\* booking's ride no longer exists, reports failure instead of returning
\* success with the status changed.
RefundFailureReported ==
  [][\A p \in Procs :
       (/\ pc[p] = "getRide" /\ Answers(p)
        /\ Refunding(local[p].existing.status, local[p].data.status)
        /\ local[p].booking.rideId \notin DOMAIN rides)
         => resp'.code # 200]_vars

\* C16: cascading rejection -- deactivating a ride rejects each of its pending
\* bookings and each rejection refunds its seatsBooked, so the ride's
\* seatsAvailable rises by the seats of the bookings that were pending.
CascadeRefunds ==
  [][\A p \in Procs :
       (pc[p] = "reject" /\ pc'[p] = "reject" /\ local'[p] # local[p]
        /\ local[p].rideId \in DOMAIN rides)
         => LET b == FirstOf(local[p].todo) IN
            /\ bookings'[b].status = "rejected"
            /\ rides'[local[p].rideId].seatsAvailable =
                 rides[local[p].rideId].seatsAvailable + bookings[b].seatsBooked]_vars

\* C17: after a successful deactivateRide the ride still exists and has
\* isActive = false, so that its seat counter can still be read.
RideSoftInvalidated ==
  [][\A p \in Procs :
       (pc[p] = "reject" /\ Answers(p) /\ resp' = Reply("deleteRide", 200, ""))
         => (local[p].rideId \in DOMAIN rides' /\ rides'[local[p].rideId].isActive = FALSE)]_vars

\* C19: every seat adjustment is clamped -- whenever a ride's counter is
\* written, the stored seatsAvailable lies in [0, seatsTotal].
AdjustmentClamped ==
  [][\A r \in DOMAIN rides \cap DOMAIN rides' :
       rides'[r].seatsAvailable # rides[r].seatsAvailable
         => /\ 0 <= rides'[r].seatsAvailable
            /\ rides'[r].seatsAvailable <= rides'[r].seatsTotal]_vars

ReadOps == {"listForRide", "listForPassenger"}

\* this step is a step of a listing
ReadStep ==
  \/ \E p \in Procs : pc[p] \in ListPcs \/ pc'[p] \in ListPcs
  \/ (Idle /\ Idle' /\ resp'.op \in ReadOps)

\* C20: the read projections have no side effects -- no step of a listing
\* changes a booking or a ride, and what a listing returns is determined by
\* its key and the store, so that a listing repeated with no write in between
\* returns the same result.
ReadsHaveNoEffect ==
  [][ReadStep =>
       /\ db' = db
       /\ (Idle' /\ resp'.op = "listForRide")
            => listed'.items = getBookingsByRide(bookings, rides, listed'.rideId)
       /\ (Idle' /\ resp'.op = "listForPassenger")
            => listed'.items = getBookingsByPassenger(bookings, rides, listed'.passengerId)]_vars

\* the two pending bookings of a ride, made by different passengers, have just
\* been listed
ReadsWitness ==
  /\ resp = Reply("listForRide", 200, "")
  /\ Idle
  /\ listed.by = "ride"
  /\ Len(listed.items) = 2
  /\ listed.items[1].id = 1 /\ listed.items[2].id = 2
  /\ bookings[1].passengerId # bookings[2].passengerId
  /\ listed.items[2].booking.status = "pending"

\* seats refunded so far to the only booking b of ride r: the counter now,
\* minus the counter right after b reserved its seats
RefundedTo(b) ==
  LET r == bookings[b].rideId IN
  rides[r].seatsAvailable - (rides[r].seatsTotal - bookings[b].seatsBooked)

\* C21: a booking is refunded at most once -- over any sequence of setStatus
\* calls on a booking (here: the only booking of its ride) the seats refunded
\* to the ride for it total at most its seatsBooked.
RefundedAtMostOnce ==
  \A b \in DOMAIN bookings :
    (bookings[b].rideId \in DOMAIN rides
       /\ BookingsOn(bookings, bookings[b].rideId) = {b})
      => RefundedTo(b) <= bookings[b].seatsBooked

\* C22: a completed ride is never active -- setting a ride's status to
\* completed also clears isActive, and in every reachable state a ride with
\* status completed has isActive false.
CompletedNotActive ==
  /\ [](\A r \in DOMAIN rides : rides[r].status = "completed" => ~rides[r].isActive)
  /\ [][\A r \in RideIds :
          (r \in DOMAIN rides /\ SetRideStatus(r, "completed"))
            => (rides'[r].status = "completed" /\ ~rides'[r].isActive)]_vars

\* a ride that holds a booking has been completed
CompletedWitness ==
  \E r \in DOMAIN rides :
    /\ rides[r].status = "completed" /\ ~rides[r].isActive
    /\ BookingsOn(bookings, r) # {}

\* C23: no update of seatsAvailable is lost -- under every interleaving of a
\* requestBooking and a refunding setStatus on one ride, once both have
\* finished the ride's seatsAvailable is its initial value minus every seat
\* reserved plus every seat refunded, i.e. seatsTotal minus the seats of its
\* pending and accepted bookings.
NoLostUpdate ==
  Idle => \A r \in DOMAIN rides :
            rides[r].seatsAvailable
              = rides[r].seatsTotal - SumSeats(bookings, ActiveOn(bookings, r))

\* C24: the cascading rejection is never silently skipped -- no step removes
\* a ride and leaves every booking that was pending on it just before still
\* pending, and a cascade that fails with bookings left to reject is reported:
\* the request is answered with an error (nothing in the code retries).
CascadeNotSkipped ==
  [][\A p \in Procs :
       /\ (/\ pc[p] = "reject"
           /\ local[p].rideId \in DOMAIN rides
           /\ local[p].rideId \notin DOMAIN rides'
           /\ PendingOn(bookings, local[p].rideId) # {})
            => \E b \in PendingOn(bookings, local[p].rideId) :
                 b \in DOMAIN bookings' /\ bookings'[b].status # "pending"
       /\ (/\ pc[p] = "reject"
           /\ local[p].todo # {}
           /\ Answers(p))
            => resp'.code >= 400]_vars

\* C25: under every interleaving of deleteRide with a requestBooking on the
\* same ride, once both have finished no pending booking refers to a ride
\* that no longer exists.
NoOrphanPending ==
  Idle => \A b \in DOMAIN bookings :
            bookings[b].status = "pending" => bookings[b].rideId \in DOMAIN rides

\* C26: a booking's seatsBooked and rideId never change after it is created,
\* whatever body an update-booking request carries.
BookingFieldsFrozen ==
  [][\A b \in DOMAIN bookings :
       b \in DOMAIN bookings'
         => (bookings'[b].seatsBooked = bookings[b].seatsBooked
               /\ bookings'[b].rideId = bookings[b].rideId)]_vars

\* C27: no booking is ever created on a ride that is not active.
BookingOnlyOnActive ==
  [][\A b \in DOMAIN bookings' \ DOMAIN bookings :
       bookings'[b].rideId \in DOMAIN rides /\ rides[bookings'[b].rideId].isActive]_vars

\* C28: deleting a user account preserves seat conservation on the rides that
\* remain: the seats held by the removed user's pending and accepted bookings
\* are returned, so once deleteUser has finished seatsAvailable plus the seats
\* of the remaining pending and accepted bookings still equals seatsTotal.
DeleteUserConserves ==
  [][\A p \in Procs :
       (pc[p] = "deleteAll" /\ Answers(p) /\ resp'.code = 200)
         => Conserved(rides', bookings')]_vars

\* every ride but r keeps its seatsAvailable in this step
OtherRidesKept(r) ==
  \A r2 \in DOMAIN rides \ {r} :
    r2 \in DOMAIN rides' /\ rides'[r2].seatsAvailable = rides[r2].seatsAvailable

\* every booking that exists, except those in S, keeps its status and seatsBooked
OtherBookingsKept(S) ==
  \A b2 \in DOMAIN bookings \ S :
    /\ b2 \in DOMAIN bookings'
    /\ bookings'[b2].status = bookings[b2].status
    /\ bookings'[b2].seatsBooked = bookings[b2].seatsBooked

\* C29: requestBooking and setStatus touch only their own ride and booking --
\* every step of a request on ride r leaves every other ride's seatsAvailable
\* and every existing booking unchanged; every step of a setStatus on booking
\* b leaves every ride but b's and every other booking unchanged; their first
\* steps, which only read, change nothing.
FrameOnly ==
  [][\A p \in Procs :
       /\ (pc[p] \in {"create", "reserve"} /\ pc'[p] # pc[p])
            => (OtherRidesKept(local[p].rideId) /\ OtherBookingsKept({}))
       /\ (pc[p] \in UpdPcs /\ pc'[p] # pc[p])
            => (OtherRidesKept(local[p].booking.rideId) /\ OtherBookingsKept({local[p].id}))
       /\ (Idle /\ Idle' /\ resp'.op \in {"requestBooking", "updateBooking"})
            => db' = db]_vars

\* two rides with a booking each: the first booking was cancelled and refunded,
\* the other ride still has its seat reserved for the second
FrameWitness ==
  /\ resp = Reply("updateBooking", 200, "")
  /\ Idle
  /\ \E b1, b2 \in DOMAIN bookings :
       /\ bookings[b1].rideId # bookings[b2].rideId
       /\ bookings[b1].rideId \in DOMAIN rides
       /\ bookings[b2].rideId \in DOMAIN rides
       /\ bookings[b1].status = "cancelled"
       /\ bookings[b2].status = "pending"
       /\ rides[bookings[b1].rideId].seatsAvailable = rides[bookings[b1].rideId].seatsTotal
       /\ rides[bookings[b2].rideId].seatsAvailable
            = rides[bookings[b2].rideId].seatsTotal - bookings[b2].seatsBooked

\* C30: in the MemStorage variant every ride keeps 0 <= seatsAvailable <=
\* seatsTotal after any sequence of booking creations and updateBooking calls
\* starting from the seeded data.
MemSeatsWithinCapacity ==
  \A r \in DOMAIN rides :
    0 <= rides[r].seatsAvailable /\ rides[r].seatsAvailable <= rides[r].seatsTotal

====
